---- MODULE Spec2Model ----
(***************************************************************************)
(* Model of the DataTable component (src/unnamed/part_000, mounted by      *)
(* src/src/App.js): file ingestion with per-cell type detection, the       *)
(* filter / sort / paginate pipeline and the handlers that drive it.       *)
(*                                                                         *)
(* A JavaScript string is a sequence of one-character strings.  A          *)
(* JavaScript number is kept in fixed point, as a count of hundredths;     *)
(* the input files carry at most two fractional digits, no exponents, no   *)
(* hex literals and no "Infinity", so every number the handlers compute    *)
(* is exact in this representation.                                        *)
(***************************************************************************)
EXTENDS Integers, Sequences, FiniteSets, TLC

----------------------------------------------------------------------------
(* Characters and their UTF-16 code units (the printable ASCII range and   *)
(* the three control characters the parser can meet).                      *)

\* Code units 32..95.
PrintableLow ==
    <<" ", "!", "\"", "#", "$", "%", "&", "'", "(", ")", "*", "+", ",", "-",
      ".", "/", "0", "1", "2", "3", "4", "5", "6", "7", "8", "9", ":", ";",
      "<", "=", ">", "?", "@", "A", "B", "C", "D", "E", "F", "G", "H", "I",
      "J", "K", "L", "M", "N", "O", "P", "Q", "R", "S", "T", "U", "V", "W",
      "X", "Y", "Z", "[", "\\", "]", "^", "_">>

\* Code units 97..126 (the grave accent, 96, is left out of the alphabet).
PrintableHigh ==
    <<"a", "b", "c", "d", "e", "f", "g", "h", "i", "j", "k", "l", "m", "n",
      "o", "p", "q", "r", "s", "t", "u", "v", "w", "x", "y", "z", "{", "|",
      "}", "~">>

Chars ==
    {PrintableLow[i] : i \in 1..Len(PrintableLow)}
        \cup {PrintableHigh[i] : i \in 1..Len(PrintableHigh)}
        \cup {"\t", "\n", "\r"}

CharCode ==
    [c \in Chars |->
        IF c = "\t" THEN 9
        ELSE IF c = "\n" THEN 10
        ELSE IF c = "\r" THEN 13
        ELSE IF \E i \in 1..Len(PrintableLow) : PrintableLow[i] = c
             THEN 31 + (CHOOSE i \in 1..Len(PrintableLow) : PrintableLow[i] = c)
             ELSE 96 + (CHOOSE i \in 1..Len(PrintableHigh) : PrintableHigh[i] = c)]

Digits == {"0", "1", "2", "3", "4", "5", "6", "7", "8", "9"}

IsDigit(c) == c \in Digits

DigitVal(c) == CharCode[c] - 48

\* White space as String.prototype.trim and the regular expression \s see it.
IsSpace(c) == c \in {" ", "\t", "\n", "\r"}

----------------------------------------------------------------------------
(* String primitives of the JavaScript runtime used by the component.      *)

RECURSIVE TrimStart(_)
TrimStart(s) ==
    IF s # <<>> /\ IsSpace(Head(s)) THEN TrimStart(Tail(s)) ELSE s

RECURSIVE TrimEnd(_)
TrimEnd(s) ==
    IF s # <<>> /\ IsSpace(s[Len(s)])
    THEN TrimEnd(SubSeq(s, 1, Len(s) - 1))
    ELSE s

\* String.prototype.trim
Trim(s) == TrimEnd(TrimStart(s))

\* String.prototype.split(sep) for a one-character separator: n separators
\* give n + 1 pieces, the empty string gives one empty piece.
RECURSIVE SplitFrom(_, _, _)
SplitFrom(s, sep, cur) ==
    IF s = <<>> THEN <<cur>>
    ELSE IF Head(s) = sep THEN <<cur>> \o SplitFrom(Tail(s), sep, <<>>)
    ELSE SplitFrom(Tail(s), sep, Append(cur, Head(s)))

Split(s, sep) == SplitFrom(s, sep, <<>>)

\* s.replace(/"/g, "")
StripQuotes(s) == SelectSeq(s, LAMBDA c : c # "\"")

\* String.prototype.toLowerCase on the modelled alphabet
LowerChar(c) ==
    IF CharCode[c] >= 65 /\ CharCode[c] <= 90
    THEN PrintableHigh[CharCode[c] + 32 - 96]
    ELSE c

RECURSIVE ToLowerCase(_)
ToLowerCase(s) ==
    IF s = <<>> THEN <<>> ELSE <<LowerChar(Head(s))>> \o ToLowerCase(Tail(s))

\* s.replace(/\s+/g, "_"): every maximal run of white space becomes one "_".
RECURSIVE SpacesToUnderscore(_)
SpacesToUnderscore(s) ==
    IF s = <<>> THEN <<>>
    ELSE IF IsSpace(Head(s))
         THEN <<"_">> \o SpacesToUnderscore(TrimStart(s))
         ELSE <<Head(s)>> \o SpacesToUnderscore(Tail(s))

\* s.replace("$", ""): a string pattern replaces the first occurrence only.
RECURSIVE RemoveFirstDollar(_)
RemoveFirstDollar(s) ==
    IF s = <<>> THEN <<>>
    ELSE IF Head(s) = "$" THEN Tail(s)
    ELSE <<Head(s)>> \o RemoveFirstDollar(Tail(s))

\* String.prototype.startsWith
StartsWith(s, p) == Len(s) >= Len(p) /\ SubSeq(s, 1, Len(p)) = p

\* String.prototype.includes
Includes(s, p) ==
    \E i \in 0..(Len(s) - Len(p)) : SubSeq(s, i + 1, i + Len(p)) = p

AllDigits(s) == \A i \in 1..Len(s) : IsDigit(s[i])

\* /^\d{4}-\d{2}-\d{2}$/
MatchesIsoDate(s) ==
    /\ Len(s) = 10
    /\ s[5] = "-" /\ s[8] = "-"
    /\ AllDigits(SubSeq(s, 1, 4))
    /\ AllDigits(SubSeq(s, 6, 7))
    /\ AllDigits(SubSeq(s, 9, 10))

\* /^\d{1,2}\/\d{1,2}\/\d{4}$/
MatchesSlashDate(s) ==
    LET parts == Split(s, "/") IN
        /\ Len(parts) = 3
        /\ Len(parts[1]) \in {1, 2} /\ AllDigits(parts[1])
        /\ Len(parts[2]) \in {1, 2} /\ AllDigits(parts[2])
        /\ Len(parts[3]) = 4 /\ AllDigits(parts[3])

\* /^\d+\.\d{2}$/
MatchesTwoDecimals(s) ==
    LET parts == Split(s, ".") IN
        /\ Len(parts) = 2
        /\ Len(parts[1]) >= 1 /\ AllDigits(parts[1])
        /\ Len(parts[2]) = 2 /\ AllDigits(parts[2])

----------------------------------------------------------------------------
(* Numbers.  A decimal literal is [+-] digits [. digits] or [+-] . digits  *)
(* (StrDecimalLiteral without exponent).                                   *)

Unsigned(s) == IF s # <<>> /\ Head(s) \in {"+", "-"} THEN Tail(s) ELSE s

RECURSIVE DigitPrefixLen(_)
DigitPrefixLen(s) ==
    IF s # <<>> /\ IsDigit(Head(s)) THEN 1 + DigitPrefixLen(Tail(s)) ELSE 0

RECURSIVE DigitsValue(_)
DigitsValue(s) ==
    IF s = <<>> THEN 0
    ELSE 10 * DigitsValue(SubSeq(s, 1, Len(s) - 1)) + DigitVal(s[Len(s)])

\* The longest prefix of s (sign already removed) that is a decimal literal,
\* as <<integer digits, fraction digits, ok>>.
DecimalPrefix(s) ==
    LET ni == DigitPrefixLen(s)
        rest == SubSeq(s, ni + 1, Len(s))
        hasDot == rest # <<>> /\ Head(rest) = "."
        nf == IF hasDot THEN DigitPrefixLen(Tail(rest)) ELSE 0
    IN  [int |-> SubSeq(s, 1, ni),
         frac |-> IF hasDot THEN SubSeq(rest, 2, nf + 1) ELSE <<>>,
         len |-> IF hasDot /\ (ni > 0 \/ nf > 0) THEN ni + 1 + nf ELSE ni,
         ok |-> ni > 0 \/ (hasDot /\ nf > 0)]

\* The value of a decimal prefix in hundredths.
Hundredths(p, negative) ==
    LET f2 == SubSeq(p.frac \o <<"0", "0">>, 1, 2)
        v == 100 * DigitsValue(p.int) + DigitsValue(f2)
    IN  IF negative THEN 0 - v ELSE v

----------------------------------------------------------------------------
(* JavaScript values held in cells: a string, a number (hundredths), NaN,  *)
(* or undefined (a missing array element).  All share one record shape.    *)

Str(s) == [t |-> "str", s |-> s, n |-> 0]

Num(k) == [t |-> "num", s |-> <<>>, n |-> k]

NaN == [t |-> "nan", s |-> <<>>, n |-> 0]

Undefined == [t |-> "undef", s |-> <<>>, n |-> 0]

Null == [t |-> "null", s |-> <<>>, n |-> 0]

\* ToBoolean(v) = false
Falsy(v) ==
    \/ v.t \in {"undef", "null", "nan"}
    \/ v.t = "str" /\ v.s = <<>>
    \/ v.t = "num" /\ v.n = 0

\* parseFloat(s): leading white space skipped, then the longest decimal
\* literal prefix; NaN when there is none.
ParseFloat(s) ==
    LET t == TrimStart(s)
        p == DecimalPrefix(Unsigned(t))
    IN  IF p.ok THEN Num(Hundredths(p, t # <<>> /\ Head(t) = "-")) ELSE NaN

\* Number(s) (ToNumber of a string): the whole trimmed string must be a
\* decimal literal; the empty string is 0.
StringToNumber(s) ==
    LET t == Trim(s)
        u == Unsigned(t)
        p == DecimalPrefix(u)
    IN  IF t = <<>> THEN Num(0)
        ELSE IF p.ok /\ p.len = Len(u) THEN Num(Hundredths(p, Head(t) = "-"))
        ELSE NaN

\* ToNumber(v)
ToNumber(v) ==
    IF v.t = "str" THEN StringToNumber(v.s)
    ELSE IF v.t = "num" THEN v
    ELSE NaN

RECURSIVE NatToString(_)
NatToString(k) ==
    IF k < 10 THEN <<PrintableLow[k + 17]>>
    ELSE NatToString(k \div 10) \o <<PrintableLow[(k % 10) + 17]>>

\* Number.prototype.toString of k hundredths: shortest decimal form.
NumberToString(k) ==
    LET a == IF k < 0 THEN 0 - k ELSE k
        f == a % 100
        frac == IF f = 0 THEN <<>>
                ELSE IF f % 10 = 0 THEN <<".">> \o NatToString(f \div 10)
                ELSE <<".", PrintableLow[(f \div 10) + 17],
                            PrintableLow[(f % 10) + 17]>>
    IN  (IF k < 0 THEN <<"-">> ELSE <<>>) \o NatToString(a \div 100) \o frac

\* value.toString()
ValueToString(v) ==
    IF v.t = "str" THEN v.s
    ELSE IF v.t = "num" THEN NumberToString(v.n)
    ELSE <<"N", "a", "N">>

\* a === b
StrictEquals(a, b) ==
    /\ a.t = b.t
    /\ a.t # "nan"
    /\ a = b

\* Lexicographic order of code units: a > b for two strings.
RECURSIVE StringGreater(_, _)
StringGreater(a, b) ==
    IF a = <<>> THEN FALSE
    ELSE IF b = <<>> THEN TRUE
    ELSE IF Head(a) = Head(b) THEN StringGreater(Tail(a), Tail(b))
    ELSE CharCode[Head(a)] > CharCode[Head(b)]

\* a > b: two strings compare as strings, anything else as numbers, and a
\* comparison with NaN is false.
GreaterThan(a, b) ==
    IF a.t = "str" /\ b.t = "str" THEN StringGreater(a.s, b.s)
    ELSE LET x == ToNumber(a)
             y == ToNumber(b)
         IN  x.t = "num" /\ y.t = "num" /\ x.n > y.n

----------------------------------------------------------------------------
(* Ingestion: handleFileUpload's two reader.onload bodies.                  *)

\* text.split("\n").filter((line) => line.trim() !== "")
CsvLines(text) == SelectSeq(Split(text, "\n"), LAMBDA line : Trim(line) # <<>>)

RECURSIVE CleanFields(_)
CleanFields(parts) ==
    IF parts = <<>> THEN <<>>
    ELSE <<StripQuotes(Trim(Head(parts)))>> \o CleanFields(Tail(parts))

\* line.split(",").map((value) => value.trim().replace(/"/g, ""))
CsvFields(line) == CleanFields(Split(line, ","))

\* header.toLowerCase().replace(/\s+/g, "_")
ColumnKey(header) == SpacesToUnderscore(ToLowerCase(header))

\* One entry of newColumns as headers.map creates it.
NewColumn(header) ==
    [key |-> ColumnKey(header), label |-> header, sortable |-> TRUE,
     filterable |-> TRUE, type |-> "string"]

\* The type detection chain applied to one trimmed cell text: the type it
\* assigns to the column ("none" when no branch is taken) and the value stored.
DetectCell(value) ==
    IF StringToNumber(value).t # "nan" /\ ParseFloat(value).t # "nan"
       /\ value # <<>>
    THEN [type |-> "number", value |-> ParseFloat(value)]
    ELSE IF MatchesIsoDate(value) \/ MatchesSlashDate(value)
    THEN [type |-> "date", value |-> Str(value)]
    ELSE IF StartsWith(value, <<"$">>) \/ MatchesTwoDecimals(value)
    THEN [type |-> "currency", value |-> ParseFloat(RemoveFirstDollar(value))]
    ELSE [type |-> "none", value |-> Str(value)]

\* A parser in which every cell, also one no branch takes, sets the type.
AssignType_EveryCell(running, detected) ==
    IF detected = "none" THEN "string" ELSE detected

\* newColumns[i].type after one more cell: a taken branch assigns its type,
\* the fall-through assigns nothing.
AssignType(running, detected) ==
    IF detected = "none" THEN running ELSE detected

\* newColumns[i].type after the first r data rows; cells[r][i] is the text of
\* row r under header i.
RECURSIVE TypeAfterRows(_, _, _)
TypeAfterRows(cells, i, r) ==
    IF r = 0 THEN "string"
    ELSE AssignType(TypeAfterRows(cells, i, r - 1), DetectCell(cells[r][i]).type)

IdKey == <<"i", "d">>

\* row[key] = value
SetField(row, key, value) ==
    [k \in DOMAIN row \cup {key} |-> IF k = key THEN value ELSE row[k]]

\* A row builder that stores a field only when its cell is not empty.
RECURSIVE RowAfterHeaders_SkipsEmpty(_, _, _, _)
RowAfterHeaders_SkipsEmpty(headers, rowCells, index, n) ==
    IF n = 0 THEN [k \in {IdKey} |-> Num(100 * (index + 1))]
    ELSE IF rowCells[n] = <<>>
         THEN RowAfterHeaders_SkipsEmpty(headers, rowCells, index, n - 1)
         ELSE SetField(RowAfterHeaders_SkipsEmpty(headers, rowCells, index, n - 1),
                       ColumnKey(headers[n]), DetectCell(rowCells[n]).value)

\* The row object after headers.forEach has visited the first n headers.
RECURSIVE RowAfterHeaders(_, _, _, _)
RowAfterHeaders(headers, rowCells, index, n) ==
    IF n = 0 THEN [k \in {IdKey} |-> Num(100 * (index + 1))]
    ELSE SetField(RowAfterHeaders(headers, rowCells, index, n - 1),
                  ColumnKey(headers[n]), DetectCell(rowCells[n]).value)

RECURSIVE ColumnsUpTo(_, _, _)
ColumnsUpTo(headers, cells, n) ==
    IF n = 0 THEN <<>>
    ELSE Append(ColumnsUpTo(headers, cells, n - 1),
                [NewColumn(headers[n]) EXCEPT
                    !.type = TypeAfterRows(cells, n, Len(cells))])

RECURSIVE RowsUpTo(_, _, _)
RowsUpTo(headers, cells, r) ==
    IF r = 0 THEN <<>>
    ELSE Append(RowsUpTo(headers, cells, r - 1),
                RowAfterHeaders(headers, cells[r], r - 1, Len(headers)))

\* newColumns and newData once every data row has been mapped.
BuildTable(headers, cells) ==
    [ok |-> TRUE,
     columns |-> ColumnsUpTo(headers, cells, Len(headers)),
     data |-> RowsUpTo(headers, cells, Len(cells))]

NoTable == [ok |-> FALSE, columns |-> <<>>, data |-> <<>>]

\* values[i] || ""
CsvCell(values, i) == IF i <= Len(values) THEN values[i] ELSE <<>>

RECURSIVE CsvRowCells(_, _)
CsvRowCells(values, n) ==
    IF n = 0 THEN <<>>
    ELSE Append(CsvRowCells(values, n - 1), CsvCell(values, n))

RECURSIVE CsvCells(_, _)
CsvCells(lines, n) ==
    IF lines = <<>> THEN <<>>
    ELSE <<CsvRowCells(CsvFields(Head(lines)), n)>> \o CsvCells(Tail(lines), n)

\* The CSV reader.onload up to the call of updateTableData: ok is FALSE when
\* the handler returns after the "empty" toast.
ParseCsv(text) ==
    LET lines == CsvLines(text) IN
        IF Len(lines) = 0 THEN NoTable
        ELSE LET headers == CsvFields(lines[1])
             IN  BuildTable(headers, CsvCells(Tail(lines), Len(headers)))

\* header ? header.toString().trim() : `Column_${...}`; suffix stands for
\* Math.random().toString(36).substr(2, 9).
ExcelHeader(cell, suffix) ==
    IF ~Falsy(cell) THEN Trim(ValueToString(cell))
    ELSE <<"C", "o", "l", "u", "m", "n", "_">> \o suffix

\* let value = row[i] || ""; value = value.toString().trim()
ExcelCell(row, i) ==
    LET c == IF i <= Len(row) THEN row[i] ELSE Undefined
    IN  IF Falsy(c) THEN <<>> ELSE Trim(ValueToString(c))

RECURSIVE ExcelHeaders(_, _, _)
ExcelHeaders(first, suffixes, n) ==
    IF n = 0 THEN <<>>
    ELSE Append(ExcelHeaders(first, suffixes, n - 1),
                ExcelHeader(first[n], suffixes[n]))

RECURSIVE ExcelRowCells(_, _)
ExcelRowCells(row, n) ==
    IF n = 0 THEN <<>>
    ELSE Append(ExcelRowCells(row, n - 1), ExcelCell(row, n))

RECURSIVE ExcelCells(_, _)
ExcelCells(rows, n) ==
    IF rows = <<>> THEN <<>>
    ELSE <<ExcelRowCells(Head(rows), n)>> \o ExcelCells(Tail(rows), n)

\* The Excel reader.onload up to the call of updateTableData.  decodable is
\* whether XLSX.read accepts the bytes, jsonData what sheet_to_json returns
\* for the first sheet; ok is FALSE when the handler ends in the catch block
\* or after the "empty" toast.
ParseExcel(decodable, jsonData, suffixes) ==
    IF ~decodable \/ Len(jsonData) = 0 THEN NoTable
    ELSE LET headers == ExcelHeaders(jsonData[1], suffixes, Len(jsonData[1]))
         IN  BuildTable(headers, ExcelCells(Tail(jsonData), Len(headers)))

----------------------------------------------------------------------------
(* The query pipeline: the filteredData, sortedData and paginatedData      *)
(* memos and totalPages.                                                   *)

\* item[key]; a missing property reads as undefined.
Field(item, key) == IF key \in DOMAIN item THEN item[key] ELSE Undefined

\* The callback of Object.values(item).some(...)
ValueMatches(value, filter) ==
    /\ value.t \notin {"null", "undef"}
    /\ Includes(ToLowerCase(ValueToString(value)), ToLowerCase(filter))

ItemMatches(item, filter) ==
    \E k \in DOMAIN item : ValueMatches(item[k], filter)

\* filteredData
FilteredData(items, filter) ==
    IF filter = <<>> THEN items
    ELSE SelectSeq(items, LAMBDA item : ItemMatches(item, filter))

\* The comparator handed to Array.prototype.sort, on the two key values.
CompareFn(aVal, bVal, direction) ==
    IF StrictEquals(aVal, bVal) THEN 0
    ELSE LET result == IF GreaterThan(aVal, bVal) THEN 1 ELSE -1
         IN  IF direction = "desc" THEN 0 - result ELSE result

\* ECMAScript's "consistent comparator" for a set of values: reflexive and
\* symmetric equality, transitive =, < and >.
ConsistentComparator(vals, direction) ==
    LET c(a, b) == CompareFn(a, b, direction) IN
        /\ \A a \in vals : c(a, a) = 0
        /\ \A a, b \in vals : c(a, b) = 0 => c(b, a) = 0
        /\ \A a, b, d \in vals :
              /\ (c(a, b) = 0 /\ c(b, d) = 0) => c(a, d) = 0
              /\ (c(a, b) < 0 /\ c(b, d) < 0) => c(a, d) < 0
              /\ (c(a, b) > 0 /\ c(b, d) > 0) => c(a, d) > 0

\* Stable insertion of x behind every element that does not sort after it.
RECURSIVE InsertStable(_, _, _, _)
InsertStable(sorted, x, key, direction) ==
    IF sorted = <<>> THEN <<x>>
    ELSE LET last == sorted[Len(sorted)] IN
         IF CompareFn(Field(last, key), Field(x, key), direction) <= 0
         THEN Append(sorted, x)
         ELSE Append(InsertStable(SubSeq(sorted, 1, Len(sorted) - 1),
                                  x, key, direction), last)

RECURSIVE StableSort(_, _, _)
StableSort(items, key, direction) ==
    IF items = <<>> THEN <<>>
    ELSE InsertStable(StableSort(SubSeq(items, 1, Len(items) - 1), key, direction),
                      items[Len(items)], key, direction)

RECURSIVE Permuted(_, _, _)
Permuted(items, p, n) ==
    IF n = 0 THEN <<>> ELSE Append(Permuted(items, p, n - 1), items[p[n]])

AllOrders(items) ==
    {Permuted(items, p, Len(items)) : p \in Permutations(1..Len(items))}

\* sortedData: the orders [...filteredData].sort(comparator) may return.  The
\* sort is stable; with a comparator that is not consistent on the values
\* present the order is implementation-defined, so any order can result.
SortedData(items, config) ==
    IF Falsy(config.key) THEN {items}
    ELSE LET vals == {Field(items[i], config.key.s) : i \in 1..Len(items)} IN
         IF ConsistentComparator(vals, config.direction)
         THEN {StableSort(items, config.key.s, config.direction)}
         ELSE AllOrders(items)

Max(a, b) == IF a > b THEN a ELSE b

Min(a, b) == IF a < b THEN a ELSE b

\* Array.prototype.slice(start, end)
Slice(items, start, end) ==
    LET len == Len(items)
        k == IF start < 0 THEN Max(len + start, 0) ELSE Min(start, len)
        final == IF end < 0 THEN Max(len + end, 0) ELSE Min(end, len)
    IN  SubSeq(items, k + 1, final)

\* paginatedData with the start index taken from the page number itself.
PaginatedData_FromPage(sorted, page, perPage) ==
    LET startIndex == page * perPage
    IN  Slice(sorted, startIndex, startIndex + perPage)

\* paginatedData
PaginatedData(sorted, page, perPage) ==
    LET startIndex == (page - 1) * perPage
    IN  Slice(sorted, startIndex, startIndex + perPage)

\* Math.ceil(sortedData.length / itemsPerPage)
TotalPages(count, perPage) == (count + perPage - 1) \div perPage

----------------------------------------------------------------------------
(* downloadAsExcel: the text handed to the Blob.                           *)

\* typeof value
TypeOf(v) ==
    IF v.t = "str" THEN "string"
    ELSE IF v.t \in {"num", "nan"} THEN "number"
    ELSE IF v.t = "null" THEN "object"
    ELSE "undefined"

\* parseFloat(value) of any value: the argument is first turned into a string.
ParseFloatOf(v) ==
    IF v.t \in {"str", "num"} THEN ParseFloat(ValueToString(v)) ELSE NaN

\* typeof value === "number" ? value : parseFloat(value) || 0
CurrencyValue(value) ==
    IF TypeOf(value) = "number" THEN value
    ELSE IF Falsy(ParseFloatOf(value)) THEN Num(0)
    ELSE ParseFloatOf(value)

\* value.replace(/"/g, '""')
RECURSIVE DoubleQuotes(_)
DoubleQuotes(s) ==
    IF s = <<>> THEN <<>>
    ELSE (IF Head(s) = "\"" THEN <<"\"", "\"">> ELSE <<Head(s)>>)
         \o DoubleQuotes(Tail(s))

\* The escape of a string holding a comma or a double quote.
EscapeValue(value) ==
    IF TypeOf(value) = "string"
       /\ (Includes(value.s, <<",">>) \/ Includes(value.s, <<"\"">>))
    THEN Str(<<"\"">> \o DoubleQuotes(value.s) \o <<"\"">>)
    ELSE value

\* What the callback of visibleColumnsArray.map returns for one cell.
ExportCell(item, col) ==
    EscapeValue(IF col.type = "currency"
                THEN CurrencyValue(Field(item, col.key))
                ELSE Field(item, col.key))

\* Array.prototype.join on values: undefined and null join as "".
JoinItem(v) == IF v.t \in {"undef", "null"} THEN <<>> ELSE ValueToString(v)

\* strings.join(sep)
RECURSIVE Join(_, _)
Join(strings, sep) ==
    IF strings = <<>> THEN <<>>
    ELSE IF Len(strings) = 1 THEN strings[1]
    ELSE strings[1] \o sep \o Join(Tail(strings), sep)

\* columns.filter((col) => visibleColumns[col.key])
VisibleColumnsArray(cols, visible) ==
    SelectSeq(cols, LAMBDA col : col.key \in DOMAIN visible /\ visible[col.key])

ExportHeaders(cols) == Join([i \in 1..Len(cols) |-> cols[i].label], <<",">>)

ExportRow(item, cols) ==
    Join([i \in 1..Len(cols) |-> JoinItem(ExportCell(item, cols[i]))], <<",">>)

\* csvContent for the records of sortedData
CsvContent(cols, visible, sorted) ==
    LET shown == VisibleColumnsArray(cols, visible) IN
        Join(<<ExportHeaders(shown)>>
                 \o [r \in 1..Len(sorted) |-> ExportRow(sorted[r], shown)],
             <<"\n">>)

----------------------------------------------------------------------------
(* The files the user can pick.  A file has a name, its text (what         *)
(* readAsText delivers) and, for a workbook, whether XLSX.read accepts its  *)
(* bytes and the rows sheet_to_json(worksheet, {header: 1}) returns.        *)

File(name, text, decodable, jsonData) ==
    [name |-> name, text |-> text, decodable |-> decodable,
     jsonData |-> jsonData]

\* blank.csv:  \n\r\n
BlankCsv ==
    File(<<"b", "l", "a", "n", "k", ".", "c", "s", "v">>,
         <<" ", "\n", "\r", "\n">>,
         FALSE, <<>>)

\* mixed.csv: K,V\nb,5\na,x\nb,5\n
MixedCsv ==
    File(<<"m", "i", "x", "e", "d", ".", "c", "s", "v">>,
         <<"K", ",", "V", "\n", "b", ",", "5", "\n", "a", ",", "x", "\n",
         "b", ",", "5", "\n">>,
         FALSE, <<>>)

\* tiny.xlsx: a workbook with the header Qty over the number 2
TinyXlsx ==
    File(<<"t", "i", "n", "y", ".", "x", "l", "s", "x">>,
         <<>>,
         TRUE, << <<Str(<<"Q", "t", "y">>)>>, <<Num(200)>> >>)

\* broken.xls: bytes XLSX.read rejects
BrokenXls ==
    File(<<"b", "r", "o", "k", "e", "n", ".", "x", "l", "s">>,
         <<>>,
         FALSE, <<>>)

\* empty.XLSX: a workbook whose first sheet has no rows
EmptyXlsx ==
    File(<<"e", "m", "p", "t", "y", ".", "X", "L", "S", "X">>,
         <<>>,
         TRUE, <<>>)

\* notes.txt: an extension the handler rejects
NotesTxt ==
    File(<<"n", "o", "t", "e", "s", ".", "t", "x", "t">>,
         <<>>,
         FALSE, <<>>)

\* sales.csv: Name,Amount\nAlice,$10.50\nBob,20.00\n
SalesCsv ==
    File(<<"s", "a", "l", "e", "s", ".", "c", "s", "v">>,
         <<"N", "a", "m", "e", ",", "A", "m", "o", "u", "n", "t", "\n",
         "A", "l", "i", "c", "e", ",", "$", "1", "0", ".", "5", "0", "\n",
         "B", "o", "b", ",", "2", "0", ".", "0", "0", "\n">>,
         FALSE, <<>>)

\* book.xlsx: a workbook whose second header cell is blank, with a numeric 0 and a short row
BookXlsx ==
    File(<<"b", "o", "o", "k", ".", "x", "l", "s", "x">>,
         <<>>,
         TRUE, << <<Str(<<"I", "t", "e", "m">>), Str(<<>>)>>,
                    <<Str(<<"p", "e", "n">>), Num(150)>>,
                    <<Num(0)>> >>)

\* dup.csv: Name,name\nA,B\n
DupCsv ==
    File(<<"d", "u", "p", ".", "c", "s", "v">>,
         <<"N", "a", "m", "e", ",", "n", "a", "m", "e", "\n", "A", ",",
         "B", "\n">>,
         FALSE, <<>>)

\* ragged.csv: A,B\n1\n2,3,4\n
RaggedCsv ==
    File(<<"r", "a", "g", "g", "e", "d", ".", "c", "s", "v">>,
         <<"A", ",", "B", "\n", "1", "\n", "2", ",", "3", ",", "4", "\n">>,
         FALSE, <<>>)

\* trail.csv: N,V\na,5\nb,x\n
TrailCsv ==
    File(<<"t", "r", "a", "i", "l", ".", "c", "s", "v">>,
         <<"N", ",", "V", "\n", "a", ",", "5", "\n", "b", ",", "x", "\n">>,
         FALSE, <<>>)

\* money.csv: K\n$\n$abc\n
MoneyCsv ==
    File(<<"m", "o", "n", "e", "y", ".", "c", "s", "v">>,
         <<"K", "\n", "$", "\n", "$", "a", "b", "c", "\n">>,
         FALSE, <<>>)

\* dates.csv: D\n9/1/2020\n10/1/2020\n2020-01-05\n
DatesCsv ==
    File(<<"d", "a", "t", "e", "s", ".", "c", "s", "v">>,
         <<"D", "\n", "9", "/", "1", "/", "2", "0", "2", "0", "\n", "1",
         "0", "/", "1", "/", "2", "0", "2", "0", "\n", "2", "0", "2", "0",
         "-", "0", "1", "-", "0", "5", "\n">>,
         FALSE, <<>>)

\* head.csv: First  Name\n
HeadCsv ==
    File(<<"h", "e", "a", "d", ".", "c", "s", "v">>,
         <<"F", "i", "r", "s", "t", " ", " ", "N", "a", "m", "e", "\n">>,
         FALSE, <<>>)

\* quoted.csv: "Id",Full Name\r\n7,"Al"\r\n
QuotedCsv ==
    File(<<"q", "u", "o", "t", "e", "d", ".", "c", "s", "v">>,
         <<"\"", "I", "d", "\"", ",", "F", "u", "l", "l", " ", "N", "a",
         "m", "e", "\r", "\n", "7", ",", "\"", "A", "l", "\"", "\r", "\n">>,
         FALSE, <<>>)

\* memo.xlsx: a workbook with a comma and double quotes inside its text cells
MemoXlsx ==
    File(<<"m", "e", "m", "o", ".", "x", "l", "s", "x">>,
         <<>>,
         TRUE, << <<Str(<<"M", "e", "m", "o">>), Str(<<"Q", "t", "y">>)>>,
                    <<Str(<<"a", ",", "b">>), Num(100)>>,
                    <<Str(<<"s", "a", "y", " ", "\"", "h", "i", "\"">>), Num(200)>> >>)

\* gaps.csv: A,B\n\n1,2\n  \n3,4\n
GapsCsv ==
    File(<<"g", "a", "p", "s", ".", "c", "s", "v">>,
         <<"A", ",", "B", "\n", "\n", "1", ",", "2", "\n", " ", " ", "\n",
         "3", ",", "4", "\n">>,
         FALSE, <<>>)

\* hole.csv: K\n,\nx\n
HoleCsv ==
    File(<<"h", "o", "l", "e", ".", "c", "s", "v">>,
         <<"K", "\n", ",", "\n", "x", "\n">>,
         FALSE, <<>>)

Files ==
    <<BlankCsv, MixedCsv, TinyXlsx, BrokenXls,
      EmptyXlsx, NotesTxt, SalesCsv, BookXlsx,
      DupCsv, RaggedCsv, TrailCsv, MoneyCsv,
      DatesCsv, HeadCsv, QuotedCsv, MemoXlsx,
      GapsCsv, HoleCsv>>

AllFiles == 1..Len(Files)

\* The files picked while the table is also being queried.
DeskFiles == 1..6

\* The files picked while an earlier read is still in flight.
RaceFiles == {1, 2, 3, 4, 6}

\* The files whose tables are sorted and exported.
ViewFiles == {1, 2, 3, 4, 6, 7, 12, 13, 16, 18}

\* file.name.split(".").pop().toLowerCase()
FileExtension(name) ==
    LET parts == Split(name, ".") IN ToLowerCase(parts[Len(parts)])

IsCsv(f) == FileExtension(Files[f].name) = <<"c", "s", "v">>

IsExcel(f) ==
    FileExtension(Files[f].name) \in {<<"x", "l", "s", "x">>, <<"x", "l", "s">>}

\* Values Math.random().toString(36).substr(2, 9) can take (two stand for all).
Suffixes == {<<"k", "3", "f">>, <<"z", "9", "q">>}

\* The texts typed into the search box.
FilterTexts == {<<"2">>, <<"B">>, <<"z", "z">>}

----------------------------------------------------------------------------
(* The component's state and its handlers.                                 *)

\* File reads that may be in flight at once.
MaxReads == 1

\* Largest itemsPerPage the component is mounted with.
MaxItemsPerPage == 2

\* File reads in flight at once where loads overlap.
MaxRaceReads == 2

VARIABLES
    data,            \* useState(initialData || [])
    columns,         \* useState(initialColumns || [])
    currentPage,     \* useState(1)
    sortConfig,      \* useState({ key: null, direction: "asc" })
    globalFilter,    \* useState("")
    visibleColumns,  \* useState({...}): column key -> boolean
    itemsPerPage,    \* the itemsPerPage prop
    reads,           \* files handed to a FileReader whose onload is pending,
                     \* in the order they were selected
    race,            \* history: how many of the oldest pending reads were
                     \* selected before a load that has already succeeded
                     \* (stale), and whether the table now present was
                     \* installed by such a read in place of another (late)
    lastOp           \* the handler that ran last, the file it was about, and
                     \* whether it replaced a query state that was not default

vars ==
    <<data, columns, currentPage, sortConfig, globalFilter, visibleColumns,
      itemsPerPage, reads, race, lastOp>>

table == <<columns, data>>

query == <<globalFilter, sortConfig, currentPage, visibleColumns>>

Op(name, file, reset) == [op |-> name, file |-> file, reset |-> reset]

NoSort == [key |-> Null, direction |-> "asc"]

NoRace == [stale |-> 0, late |-> FALSE]

ColumnKeys(cols) == {cols[i].key : i \in 1..Len(cols)}

\* newColumns.reduce((acc, col) => ({ ...acc, [col.key]: true }), {})
AllVisible(cols) == [k \in ColumnKeys(cols) |-> TRUE]

\* visibleColumns[key], read as a condition
IsVisible(key) == key \in DOMAIN visibleColumns /\ visibleColumns[key]

\* sortedData.length
MatchedCount == Len(FilteredData(data, globalFilter))

\* totalPages
totalPages == TotalPages(MatchedCount, itemsPerPage)

\* The component is mounted without data; the sample rows App.js passes are
\* not part of the sources.
Init ==
    /\ data = <<>>
    /\ columns = <<>>
    /\ currentPage = 1
    /\ sortConfig = NoSort
    /\ globalFilter = <<>>
    /\ visibleColumns = AllVisible(<<>>)
    /\ itemsPerPage \in 1..MaxItemsPerPage
    /\ reads = <<>>
    /\ race = NoRace
    /\ lastOp = Op("mount", 0, FALSE)

QueryIsDirty ==
    /\ globalFilter # <<>>
    /\ ~Falsy(sortConfig.key)
    /\ currentPage # 1
    /\ \E k \in DOMAIN visibleColumns : ~visibleColumns[k]

\* updateTableData spreading the previous visibility object into the new one.
UpdateTableData_KeepsOldKeys(newColumns, newData) ==
    /\ columns' = newColumns
    /\ data' = newData
    /\ visibleColumns' =
          [k \in DOMAIN visibleColumns \cup ColumnKeys(newColumns) |-> TRUE]
    /\ currentPage' = 1
    /\ globalFilter' = <<>>
    /\ sortConfig' = NoSort

\* A renderer that commits the first queued update on its own: the next
\* view is computed before the remaining updates are applied.
CommitUpdates_FirstOnly(u) ==
    /\ columns' = u.columns
    /\ UNCHANGED <<data, visibleColumns, currentPage, globalFilter, sortConfig>>

\* The state updates one callback queues are committed together: the next
\* view is computed from all of them ("replacing the Table is atomic from
\* the Query Pipeline's perspective").
CommitUpdates(u) ==
    /\ columns' = u.columns
    /\ data' = u.data
    /\ visibleColumns' = u.visibleColumns
    /\ currentPage' = u.currentPage
    /\ globalFilter' = u.globalFilter
    /\ sortConfig' = u.sortConfig

\* updateTableData(newColumns, newData): the six setters it calls.
UpdateTableData(newColumns, newData) ==
    CommitUpdates([columns |-> newColumns,
                   data |-> newData,
                   visibleColumns |-> AllVisible(newColumns),
                   currentPage |-> 1,
                   globalFilter |-> <<>>,
                   sortConfig |-> NoSort])

\* handleFileUpload(event) with the picked file f: a reader is started for a
\* CSV or Excel file, any other extension is refused with an alert.  The
\* code starts a reader whatever is pending; limit caps the reads in flight.
HandleFileUploadWithin(f, limit) ==
    /\ \/ /\ IsCsv(f)
          /\ Len(reads) < limit
          /\ reads' = Append(reads, f)
          /\ lastOp' = Op("readAsText", f, FALSE)
       \/ /\ IsExcel(f)
          /\ Len(reads) < limit
          /\ reads' = Append(reads, f)
          /\ lastOp' = Op("readAsArrayBuffer", f, FALSE)
       \/ /\ ~IsCsv(f) /\ ~IsExcel(f)
          /\ reads' = reads
          /\ lastOp' = Op("alertUnsupported", f, FALSE)
    /\ UNCHANGED <<table, query, itemsPerPage, race>>

HandleFileUpload(f) == HandleFileUploadWithin(f, MaxReads)

Remove(s, i) == SubSeq(s, 1, i - 1) \o SubSeq(s, i + 1, Len(s))

\* The history after the onload of pending read i.  The success of a read
\* that is not stale makes every read selected before it stale; the onload
\* of a stale read is late when it replaces the table by another one.
RaceAfter(i, ok) ==
    IF i <= race.stale
    THEN [stale |-> race.stale - 1, late |-> race.late \/ table' # table]
    ELSE IF ok
    THEN [stale |-> i - 1, late |-> FALSE]
    ELSE race

\* A reader.onload that installs an empty table before it reports a failure.
FinishLoad_ClearsOnFailure(f, parsed, failure) ==
    /\ UpdateTableData(parsed.columns, parsed.data)
    /\ lastOp' = Op(IF parsed.ok THEN "loaded" ELSE failure, f,
                    parsed.ok /\ QueryIsDirty)

\* What a reader.onload does with the outcome of its parse: the "empty"
\* toast or the alert of the catch block, or updateTableData.
FinishLoad(f, parsed, failure) ==
    IF parsed.ok
    THEN /\ UpdateTableData(parsed.columns, parsed.data)
         /\ lastOp' = Op("loaded", f, QueryIsDirty)
    ELSE /\ UNCHANGED <<table, query>>
         /\ lastOp' = Op(failure, f, FALSE)

\* reader.onload of the CSV branch for the i-th pending read
CsvOnload(i) ==
    /\ i \in 1..Len(reads)
    /\ IsCsv(reads[i])
    /\ reads' = Remove(reads, i)
    /\ FinishLoad(reads[i], ParseCsv(Files[reads[i]].text), "toastEmpty")
    /\ race' = RaceAfter(i, ParseCsv(Files[reads[i]].text).ok)
    /\ UNCHANGED itemsPerPage

\* reader.onload of the Excel branch for the i-th pending read
ExcelOnload(i) ==
    /\ i \in 1..Len(reads)
    /\ IsExcel(reads[i])
    /\ reads' = Remove(reads, i)
    /\ LET file == Files[reads[i]]
           width == IF file.jsonData = <<>> THEN 0 ELSE Len(file.jsonData[1])
       IN  \E suffixes \in [1..width -> Suffixes] :
              FinishLoad(reads[i],
                         ParseExcel(file.decodable, file.jsonData, suffixes),
                         IF file.decodable THEN "toastEmpty" ELSE "alertExcelError")
    /\ race' = RaceAfter(i, Files[reads[i]].decodable
                            /\ Files[reads[i]].jsonData # <<>>)
    /\ UNCHANGED itemsPerPage

\* An onChange that stores the text and leaves the page where it is.
SetGlobalFilter_KeepsPage(text) ==
    /\ text # globalFilter
    /\ globalFilter' = text
    /\ lastOp' = Op("search", 0, FALSE)
    /\ UNCHANGED <<table, currentPage, sortConfig, visibleColumns,
                   itemsPerPage, reads, race>>

\* onChange of the search input
SetGlobalFilter(text) ==
    /\ text # globalFilter
    /\ globalFilter' = text
    /\ currentPage' = 1
    /\ lastOp' = Op("search", 0, FALSE)
    /\ UNCHANGED <<table, sortConfig, visibleColumns, itemsPerPage, reads,
                   race>>

\* clearGlobalFilter; its button is rendered while globalFilter is not empty
ClearGlobalFilter ==
    /\ globalFilter # <<>>
    /\ globalFilter' = <<>>
    /\ currentPage' = 1
    /\ lastOp' = Op("clear", 0, FALSE)
    /\ UNCHANGED <<table, sortConfig, visibleColumns, itemsPerPage, reads,
                   race>>

\* A handleSort that flips the direction without looking at the key the
\* previous sort was on.
HandleSort_IgnoresKey(key) ==
    /\ \E i \in 1..Len(columns) :
          columns[i].key = key /\ columns[i].sortable /\ IsVisible(key)
    /\ sortConfig' =
          [key |-> Str(key),
           direction |-> IF sortConfig.direction = "asc"
                         THEN "desc" ELSE "asc"]
    /\ lastOp' = Op("sort", 0, FALSE)
    /\ UNCHANGED <<table, globalFilter, currentPage, visibleColumns,
                   itemsPerPage, reads, race>>

\* A handleSort that also sorts the records themselves (data.sort), not a
\* copy of them.
HandleSort_SortsInPlace(key) ==
    /\ \E i \in 1..Len(columns) :
          columns[i].key = key /\ columns[i].sortable /\ IsVisible(key)
    /\ sortConfig' =
          [key |-> Str(key),
           direction |-> IF StrictEquals(sortConfig.key, Str(key))
                            /\ sortConfig.direction = "asc"
                         THEN "desc" ELSE "asc"]
    /\ data' = StableSort(data, key, sortConfig'.direction)
    /\ lastOp' = Op("sort", 0, FALSE)
    /\ UNCHANGED <<columns, globalFilter, currentPage, visibleColumns,
                   itemsPerPage, reads, race>>

\* handleSort(key), from a click on the header of a visible, sortable column
HandleSort(key) ==
    /\ \E i \in 1..Len(columns) :
          columns[i].key = key /\ columns[i].sortable /\ IsVisible(key)
    /\ sortConfig' =
          [key |-> Str(key),
           direction |-> IF StrictEquals(sortConfig.key, Str(key))
                            /\ sortConfig.direction = "asc"
                         THEN "desc" ELSE "asc"]
    /\ lastOp' = Op("sort", 0, FALSE)
    /\ UNCHANGED <<table, globalFilter, currentPage, visibleColumns,
                   itemsPerPage, reads, race>>

\* toggleColumnVisibility(key), from a checkbox of the column panel
ToggleColumnVisibility(key) ==
    /\ key \in ColumnKeys(columns)
    /\ visibleColumns' =
          [k \in DOMAIN visibleColumns \cup {key} |->
              IF k = key THEN ~IsVisible(key) ELSE visibleColumns[k]]
    /\ lastOp' = Op("toggle", 0, FALSE)
    /\ UNCHANGED <<table, globalFilter, currentPage, sortConfig,
                   itemsPerPage, reads, race>>

\* The pagination buttons: what each setCurrentPage call stores.
FirstPageTarget == 1

PrevPageTarget == Max(currentPage - 1, 1)

NextPageTarget == Min(currentPage + 1, totalPages)

LastPageTarget == totalPages

GoToPage(name, target) ==
    /\ currentPage' = target
    /\ lastOp' = Op(name, 0, FALSE)
    /\ UNCHANGED <<table, globalFilter, sortConfig, visibleColumns,
                   itemsPerPage, reads, race>>

\* "First page" and "Previous page" are disabled while currentPage === 1
FirstPage == currentPage # 1 /\ GoToPage("first", FirstPageTarget)

PrevPage == currentPage # 1 /\ GoToPage("prev", PrevPageTarget)

\* "Next page" and "Last page" are disabled while currentPage === totalPages
NextPage == currentPage # totalPages /\ GoToPage("next", NextPageTarget)

LastPage == currentPage # totalPages /\ GoToPage("last", LastPageTarget)

\* downloadAsExcel; its button is disabled while data is empty.  The
\* payload is CsvContent of the current view; no state is written.
DownloadAsExcel ==
    /\ Len(data) # 0
    /\ lastOp' = Op("download", 0, FALSE)
    /\ UNCHANGED <<table, query, itemsPerPage, reads, race>>

QueryStep ==
    \/ \E text \in FilterTexts : SetGlobalFilter(text)
    \/ ClearGlobalFilter
    \/ \E key \in ColumnKeys(columns) : HandleSort(key)
    \/ \E key \in ColumnKeys(columns) : ToggleColumnVisibility(key)
    \/ FirstPage
    \/ PrevPage
    \/ NextPage
    \/ LastPage
    \/ DownloadAsExcel

ReadStep ==
    \/ \E i \in 1..Len(reads) : CsvOnload(i)
    \/ \E i \in 1..Len(reads) : ExcelOnload(i)

Next ==
    \/ \E f \in DeskFiles : HandleFileUpload(f)
    \/ ReadStep
    \/ QueryStep

\* The component with its table queried while files are loaded.
Spec == Init /\ [][Next]_vars

NextIngest ==
    \/ \E f \in AllFiles : HandleFileUpload(f)
    \/ ReadStep

\* The component loading one file after another, any file of the library.
SpecIngest == Init /\ [][NextIngest]_vars

NextView ==
    \/ \E f \in ViewFiles : HandleFileUpload(f)
    \/ ReadStep
    \/ \E key \in ColumnKeys(columns) : HandleSort(key)
    \/ DownloadAsExcel

\* Tables loaded, then sorted and exported.
SpecView == Init /\ [][NextView]_vars

NextRace ==
    \/ \E f \in RaceFiles : HandleFileUploadWithin(f, MaxRaceReads)
    \/ ReadStep

\* Files selected while earlier reads are pending; the reads complete in
\* any order.
SpecRace == Init /\ [][NextRace]_vars

----------------------------------------------------------------------------
(* What a file holds, as the handlers read it.                             *)

\* headers.length of file f
HeaderCount(f) ==
    IF IsCsv(f) THEN Len(CsvFields(CsvLines(Files[f].text)[1]))
    ELSE Len(Files[f].jsonData[1])

\* The number of fields data row r of file f carries itself.
RawRowLength(f, r) ==
    IF IsCsv(f) THEN Len(CsvFields(CsvLines(Files[f].text)[r + 1]))
    ELSE Len(Files[f].jsonData[r + 1])

\* The cell texts of file f, one per data row and header.
FileCells(f) ==
    IF IsCsv(f) THEN CsvCells(Tail(CsvLines(Files[f].text)), HeaderCount(f))
    ELSE ExcelCells(Tail(Files[f].jsonData), HeaderCount(f))

\* The tables a load of file f can hand to updateTableData.
LoadResults(f) ==
    IF IsCsv(f) THEN {ParseCsv(Files[f].text)}
    ELSE LET file == Files[f]
             width == IF file.jsonData = <<>> THEN 0 ELSE Len(file.jsonData[1])
         IN  {ParseExcel(file.decodable, file.jsonData, suffixes) :
                 suffixes \in [1..width -> Suffixes]}

\* The classification of one cell text: number, date, currency or string.
InferType(text) ==
    LET t == DetectCell(text).type IN IF t = "none" THEN "string" ELSE t

Loaded == lastOp.op = "loaded"

----------------------------------------------------------------------------
(* Claims.                                                                 *)

FailedLoadOps == {"toastEmpty", "alertExcelError", "alertUnsupported"}

\* C1: a load attempt that fails (a CSV with no non-blank line, a workbook
\* with no rows, bytes that are no workbook, an unsupported extension)
\* leaves the columns, the records and the whole query state as they were.
C1_FailedLoadKeepsState ==
    [][lastOp'.op \in FailedLoadOps => UNCHANGED <<table, query>>]_vars

\* C1 witness: a load has just failed over a table with records and a query
\* state in which filter, sort, page and visibility are all set.
C1_Witness ==
    /\ lastOp.op \in FailedLoadOps
    /\ data # <<>>
    /\ QueryIsDirty

\* C2: after every successful load the table is the parsed one, the filter
\* is empty, no sort key is set, the page is 1 and the visibility object
\* holds exactly the new schema's keys, all visible.
C2_LoadResetsQuery ==
    Loaded =>
        /\ \E parsed \in LoadResults(lastOp.file) :
              parsed.ok /\ columns = parsed.columns /\ data = parsed.data
        /\ globalFilter = <<>>
        /\ sortConfig.key = Null
        /\ currentPage = 1
        /\ DOMAIN visibleColumns = ColumnKeys(columns)
        /\ \A k \in DOMAIN visibleColumns : visibleColumns[k]

\* C2 witness: a load has just replaced a query state whose filter, sort,
\* page and visibility were all away from their defaults.
C2_Witness == Loaded /\ lastOp.reset /\ columns # <<>>

\* C3 as stated: the final type of each column is the classification of
\* that column's cell in the last data row.
C3_LastRowDecidesType ==
    (Loaded /\ Len(data) >= 1) =>
        LET cells == FileCells(lastOp.file) IN
            \A i \in 1..Len(columns) :
                columns[i].type = InferType(cells[Len(cells)][i])

\* C3 amended: the final type of each column is the classification of the
\* last cell of the column that is classified number, date or currency, and
\* string when there is none; a cell classified string changes nothing.
C3_LastDetectedTypeWins ==
    Loaded =>
        LET cells == FileCells(lastOp.file) IN
            \A i \in 1..Len(columns) :
                LET typed == {r \in 1..Len(cells) :
                                 InferType(cells[r][i]) # "string"}
                IN  columns[i].type =
                        IF typed = {} THEN "string"
                        ELSE InferType(
                                cells[CHOOSE r \in typed :
                                         \A q \in typed : q <= r][i])

\* C3 witness: a loaded column is typed number although its cell in the
\* last data row is classified string.
C3_Witness ==
    /\ Loaded
    /\ Len(data) >= 2
    /\ LET cells == FileCells(lastOp.file) IN
           \E i \in 1..Len(columns) :
               /\ InferType(cells[Len(cells)][i]) = "string"
               /\ columns[i].type = "number"

NameKey == <<"n", "a", "m", "e">>

AmountKey == <<"a", "m", "o", "u", "n", "t">>

\* C4: loading "Name,Amount / Alice,$10.50 / Bob,20.00" yields the keys
\* name and amount, the amount column typed currency, and the records
\* {id 1, Alice, 10.5} and {id 2, Bob, 20}.
C4_SalesScenario ==
    (Loaded /\ Files[lastOp.file] = SalesCsv) =>
        /\ Len(columns) = 2
        /\ columns[1].key = NameKey
        /\ columns[2].key = AmountKey
        /\ columns[2].type = "currency"
        /\ data =
              << (IdKey :> Num(100) @@ NameKey :> Str(<<"A", "l", "i", "c", "e">>)
                      @@ AmountKey :> Num(1050)),
                 (IdKey :> Num(200) @@ NameKey :> Str(<<"B", "o", "b">>)
                      @@ AmountKey :> Num(2000)) >>

\* The claim's reading of a match: the string form of the value of a schema
\* column contains the filter text, case-insensitively.
ColumnValueMatches(item, filter) ==
    \E k \in ColumnKeys(columns) :
        /\ k \in DOMAIN item
        /\ Includes(ToLowerCase(ValueToString(item[k])), ToLowerCase(filter))

\* C5: with an empty filter every record is retained; otherwise a record is
\* retained exactly when the value of one of its schema columns contains
\* the filter text (a match of the synthetic id alone retains nothing).
C5_FilterMatchesColumnsOnly ==
    /\ globalFilter = <<>> => FilteredData(data, globalFilter) = data
    /\ globalFilter # <<>> =>
          FilteredData(data, globalFilter) =
              SelectSeq(data, LAMBDA item : ColumnValueMatches(item, globalFilter))

\* The place of record x in a sequence of records.
PositionIn(seq, x) == CHOOSE p \in 1..Len(seq) : seq[p] = x

IsPermutationOf(seq, items) ==
    /\ Len(seq) = Len(items)
    /\ \E p \in Permutations(1..Len(items)) :
          \A i \in 1..Len(items) : seq[i] = items[p[i]]

\* C6: for every sort key, the ascending and the descending result are
\* permutations of the filtered records; two records with distinct key
\* values stand in opposite order in the two, and two records with equal
\* key values keep their filtered order in both.
C6_SortLaw ==
    LET items == FilteredData(data, globalFilter) IN
        \A key \in ColumnKeys(columns) :
            \A asc \in SortedData(items, [key |-> Str(key), direction |-> "asc"]) :
            \A desc \in SortedData(items, [key |-> Str(key), direction |-> "desc"]) :
                /\ IsPermutationOf(asc, items)
                /\ IsPermutationOf(desc, items)
                /\ \A i, j \in 1..Len(items) :
                      i < j =>
                          LET a == items[i]
                              b == items[j]
                              aFirstAsc == PositionIn(asc, a) < PositionIn(asc, b)
                              aFirstDesc == PositionIn(desc, a) < PositionIn(desc, b)
                          IN  IF StrictEquals(Field(a, key), Field(b, key))
                              THEN aFirstAsc /\ aFirstDesc
                              ELSE aFirstAsc # aFirstDesc

RECURSIVE PagesUpTo(_, _, _)
PagesUpTo(sorted, perPage, p) ==
    IF p = 0 THEN <<>>
    ELSE PagesUpTo(sorted, perPage, p - 1) \o PaginatedData(sorted, p, perPage)

\* C7: page p shows the elements at positions (p-1)*pageSize up to
\* p*pageSize; totalPages is the ceiling of matched / pageSize, 0 when
\* nothing matches; the pages 1..totalPages concatenate to the sorted
\* sequence, all but the last are full, and a page past the last is empty.
C7_PagesPartitionSorted ==
    \A sorted \in SortedData(FilteredData(data, globalFilter), sortConfig) :
        LET n == Len(sorted)
            size == itemsPerPage
            pages == TotalPages(n, size)
        IN  /\ size * pages >= n
            /\ size * pages < n + size
            /\ n = 0 => pages = 0
            /\ \A p \in 1..(pages + 2) :
                  PaginatedData(sorted, p, size) =
                      SubSeq(sorted, (p - 1) * size + 1, Min(p * size, n))
            /\ PagesUpTo(sorted, size, pages) = sorted
            /\ \A p \in 1..(pages - 1) : Len(PaginatedData(sorted, p, size)) = size
            /\ \A p \in (pages + 1)..(pages + 2) :
                  PaginatedData(sorted, p, size) = <<>>

\* C7 witness: a sorted table shown on its last page, which is not full.
C7_Witness ==
    /\ ~Falsy(sortConfig.key)
    /\ totalPages >= 2
    /\ currentPage = totalPages
    /\ MatchedCount % itemsPerPage # 0

\* C8: the page number is at least 1 in every reachable state.
C8_PagePositive == currentPage >= 1

\* C9: after a successful load every record holds a value under every
\* column key and under no other key but id; a row with fewer fields than
\* the header holds the empty string under each missing trailing field.
C9_RecordsCoverSchema ==
    Loaded =>
        \A r \in 1..Len(data) :
            /\ DOMAIN data[r] = ColumnKeys(columns) \cup {IdKey}
            /\ \A i \in 1..Len(columns) :
                  /\ data[r][columns[i].key].t \in {"str", "num", "nan"}
                  /\ (/\ i > RawRowLength(lastOp.file, r)
                      /\ \A j \in (i + 1)..Len(columns) :
                            columns[j].key # columns[i].key)
                     => data[r][columns[i].key] = Str(<<>>)

\* C9 witness: a loaded file with a row shorter than its header, padded
\* with the empty string, and a row longer than its header.
C9_Witness ==
    /\ Loaded
    /\ \E r \in 1..Len(data) :
          /\ RawRowLength(lastOp.file, r) < Len(columns)
          /\ data[r][columns[Len(columns)].key] = Str(<<>>)
    /\ \E r \in 1..Len(data) : RawRowLength(lastOp.file, r) > Len(columns)

\* C10: in every loaded table no two columns carry the same key; when two
\* headers normalise to one key the record holds the later header's value.
C10_KeysUnique ==
    Loaded =>
        /\ \A i, j \in 1..Len(columns) :
              i # j => columns[i].key # columns[j].key
        /\ \A r \in 1..Len(data) :
              \A i \in 1..Len(columns) :
                  (\A j \in (i + 1)..Len(columns) : columns[j].key # columns[i].key)
                  => data[r][columns[i].key] =
                         DetectCell(FileCells(lastOp.file)[r][i]).value

\* C11: after a successful load all cells of a column share the
\* representation of the column's settled type: a column settled as number
\* or currency holds only numbers (zero where the text cannot be coerced),
\* a column settled as string or date holds only strings.
C11_ColumnSharesType ==
    Loaded =>
        \A i \in 1..Len(columns) :
            \A r \in 1..Len(data) :
                LET v == data[r][columns[i].key] IN
                    IF columns[i].type \in {"number", "currency"}
                    THEN v.t = "num"
                    ELSE v.t = "str"

\* The calendar day a date text of either accepted form denotes, as a number
\* that grows with the date.
DateOrdinal(text) ==
    IF MatchesIsoDate(text)
    THEN DigitsValue(SubSeq(text, 1, 4)) * 10000
         + DigitsValue(SubSeq(text, 6, 7)) * 100
         + DigitsValue(SubSeq(text, 9, 10))
    ELSE LET parts == Split(text, "/")
         IN  DigitsValue(parts[3]) * 10000 + DigitsValue(parts[1]) * 100
             + DigitsValue(parts[2])

IsDateText(v) ==
    v.t = "str" /\ (MatchesIsoDate(v.s) \/ MatchesSlashDate(v.s))

\* The type of the column the table is sorted by.
SortedColumnType ==
    LET i == CHOOSE i \in 1..Len(columns) : columns[i].key = sortConfig.key.s
    IN  columns[i].type

\* C12: an ascending sort orders the records by the total order of the
\* column's type: chronologically on a date column (9/1/2020 before
\* 10/1/2020), numerically on a number column, lexicographically on a string
\* column; and the comparison is antisymmetric and transitive on the values
\* of the column.
C12_AscendingIsTypeOrder ==
    (~Falsy(sortConfig.key) /\ sortConfig.direction = "asc") =>
        LET key == sortConfig.key.s
            items == FilteredData(data, globalFilter)
            vals == {Field(items[i], key) : i \in 1..Len(items)}
            c(a, b) == CompareFn(a, b, "asc")
        IN  /\ \A sorted \in SortedData(items, sortConfig) :
                  \A i, j \in 1..Len(sorted) :
                      i < j =>
                          LET a == Field(sorted[i], key)
                              b == Field(sorted[j], key)
                          IN  /\ (SortedColumnType = "date"
                                  /\ IsDateText(a) /\ IsDateText(b))
                                 => DateOrdinal(a.s) <= DateOrdinal(b.s)
                              /\ (SortedColumnType = "number"
                                  /\ a.t = "num" /\ b.t = "num")
                                 => a.n <= b.n
                              /\ (SortedColumnType = "string"
                                  /\ a.t = "str" /\ b.t = "str")
                                 => ~StringGreater(a.s, b.s)
            /\ \A a, b \in vals : c(a, b) = 0 - c(b, a)
            /\ \A a, b, d \in vals :
                  (c(a, b) <= 0 /\ c(b, d) <= 0) => c(a, d) <= 0

RECURSIVE Reverse(_)
Reverse(seq) ==
    IF seq = <<>> THEN <<>> ELSE Append(Reverse(Tail(seq)), Head(seq))

\* C13: for every table, filter and sort key the descending result is
\* exactly the reversal of the ascending result of the same filtered
\* records, also when several records have equal key values.
C13_DescendingIsReversal ==
    LET items == FilteredData(data, globalFilter) IN
        \A key \in ColumnKeys(columns) :
            \A asc \in SortedData(items, [key |-> Str(key), direction |-> "asc"]) :
            \A desc \in SortedData(items, [key |-> Str(key), direction |-> "desc"]) :
                desc = Reverse(asc)

\* C14: in every state a view is computed from, the schema and the records
\* are those of one and the same load (or the ones the component was
\* mounted with), and the query state belongs to that schema: the
\* visibility object holds exactly its keys and the sort key, when set, is
\* one of them.
C14_ReplaceIsAtomic ==
    /\ \/ columns = <<>> /\ data = <<>>
       \/ \E f \in AllFiles :
             \E parsed \in LoadResults(f) :
                 parsed.ok /\ columns = parsed.columns /\ data = parsed.data
    /\ DOMAIN visibleColumns = ColumnKeys(columns)
    /\ sortConfig.key = Null \/ sortConfig.key.s \in ColumnKeys(columns)

\* C14 witness: a load has just replaced a table of two columns, queried
\* with a filter, a sort, a later page and a hidden column, by a table of
\* one column.
C14_Witness ==
    /\ Loaded
    /\ lastOp.reset
    /\ Len(columns) = 1
    /\ Len(data) = 1

\* No header name holds a comma or a double quote.
PlainHeaders ==
    \A i \in 1..Len(columns) :
        /\ ~Includes(columns[i].label, <<",">>)
        /\ ~Includes(columns[i].label, <<"\"">>)

\* C15: for a table whose header names hold no comma or double quote,
\* exported with no filter and all columns visible, parsing the payload as
\* delimited text yields as many records, in the same order, each holding
\* under every column the value the exported record holds, also for values
\* that contain a comma or a double quote or are empty.
C15_ExportRoundTrip ==
    (/\ Len(data) # 0
     /\ globalFilter = <<>>
     /\ \A i \in 1..Len(columns) : IsVisible(columns[i].key)
     /\ PlainHeaders)
    => \A sorted \in SortedData(FilteredData(data, globalFilter), sortConfig) :
           LET back == ParseCsv(CsvContent(columns, visibleColumns, sorted)) IN
               /\ back.ok
               /\ Len(back.data) = Len(sorted)
               /\ \A r \in 1..Len(sorted) :
                     \A i \in 1..Len(columns) :
                         Field(back.data[r], columns[i].key)
                             = Field(sorted[r], columns[i].key)

\* A text that is a plain decimal number: an optional minus, digits, and an
\* optional fraction of digits.
IsNumericText(text) ==
    LET u == Unsigned(text)
        p == DecimalPrefix(u)
    IN  u # <<>> /\ IsDigit(Head(u)) /\ p.ok /\ p.len = Len(u)

\* C16: in the exported payload every cell of a currency column is plain
\* numeric text without the currency symbol, and a cell with no usable
\* amount (empty, not numeric, parsed from a bare "$" or from "$abc") is
\* exported as 0.
C16_CurrencyExportsNumeric ==
    \A i \in 1..Len(columns) :
        columns[i].type = "currency" =>
            \A r \in 1..Len(data) :
                LET v == Field(data[r], columns[i].key)
                    out == JoinItem(ExportCell(data[r], columns[i]))
                IN  /\ IsNumericText(out)
                    /\ (v.t # "num" /\ ParseFloatOf(v).t # "num") => out = <<"0">>

QueryOps ==
    {"search", "clear", "sort", "toggle", "first", "prev", "next", "last",
     "download"}

\* C17: a step changes the columns or the records only when it is a
\* successful load, which installs the parsed table whole; filter edits and
\* clears, sort clicks, page navigation, visibility toggles and exports
\* leave columns and records (values, ids, order) as they are.
C17_OnlyLoadChangesTable ==
    [][/\ lastOp'.op \in QueryOps => UNCHANGED table
       /\ table' # table =>
             /\ lastOp'.op = "loaded"
             /\ \E parsed \in LoadResults(lastOp'.file) :
                   parsed.ok /\ table' = <<parsed.columns, parsed.data>>]_vars

\* C17 witness: an export of a table that is filtered, sorted descending,
\* shown on a later page and has a hidden column.
C17_Witness ==
    /\ lastOp.op = "download"
    /\ QueryIsDirty
    /\ sortConfig.direction = "desc"

\* The lines of a text that hold a character other than white space.
NonBlankLines(text) ==
    SelectSeq(Split(text, "\n"),
              LAMBDA line : \E k \in 1..Len(line) : ~IsSpace(line[k]))

\* The number of commas in a line.
CommaCount(line) == Cardinality({k \in 1..Len(line) : line[k] = ","})

\* C18: a load of a delimited text with N >= 2 non-blank lines yields N-1
\* records whose ids are their 1-based positions, in input order, and one
\* column per comma-separated field of the header line; blank lines yield
\* no record and use no id.
C18_RecordPerLine ==
    (Loaded /\ IsCsv(lastOp.file)
        /\ Len(NonBlankLines(Files[lastOp.file].text)) >= 2) =>
        LET lines == NonBlankLines(Files[lastOp.file].text) IN
            /\ Len(data) = Len(lines) - 1
            /\ Len(columns) = CommaCount(lines[1]) + 1
            /\ \A r \in 1..Len(data) :
                  /\ data[r][IdKey] = Num(100 * r)
                  /\ \A i \in 1..Len(columns) :
                        (\A j \in (i + 1)..Len(columns) :
                             columns[j].key # columns[i].key)
                        => data[r][columns[i].key] =
                               DetectCell(CsvCell(CsvFields(lines[r + 1]), i)).value

\* C19: while at least one record matches the filter, the page number lies
\* in 1..totalPages and the page shown holds at least one record.
C19_PageWithinRange ==
    MatchedCount >= 1 =>
        /\ 1 <= currentPage
        /\ currentPage <= totalPages
        /\ \A sorted \in SortedData(FilteredData(data, globalFilter), sortConfig) :
              PaginatedData(sorted, currentPage, itemsPerPage) # <<>>

\* C19 witness: a filter typed while a later page of a sorted table was
\* shown has put the view back on page 1 of fewer pages.
C19_Witness ==
    /\ lastOp.op = "search"
    /\ ~Falsy(sortConfig.key)
    /\ MatchedCount >= 1
    /\ MatchedCount < Len(data)
    /\ totalPages >= 2
    /\ currentPage = 1

\* C20: once the reads that were started have completed, the table is
\* that of the file selected last among the files whose load succeeded,
\* whatever the order of completion: it is never a table that a read
\* selected earlier has put in the place of a later-selected file's table.
C20_LastSelectedWins == reads = <<>> => ~race.late

\* C21: a click on the header of column K sets the sort to (K, desc)
\* exactly when it was (K, asc) before, and to (K, asc) otherwise; it leaves
\* the table, the filter text, the page and the visibility as they are; and
\* a sort key that is set is taken away only by a successful load.
C21_HeaderClickLaw ==
    [][/\ lastOp'.op = "sort" =>
             /\ \E key \in ColumnKeys(columns) :
                   /\ sortConfig'.key = Str(key)
                   /\ sortConfig'.direction = "desc"
                          <=> sortConfig = [key |-> Str(key), direction |-> "asc"]
                   /\ sortConfig'.direction = "asc"
                          <=> sortConfig # [key |-> Str(key), direction |-> "asc"]
             /\ UNCHANGED <<table, globalFilter, currentPage, visibleColumns>>
       /\ (sortConfig.key # Null /\ sortConfig'.key = Null) =>
             lastOp'.op = "loaded"]_vars

\* C21 witness: a header click has just turned a sort descending on a table
\* that is filtered, shown on a later page and has a hidden column.
C21_Witness ==
    /\ lastOp.op = "sort"
    /\ sortConfig.direction = "desc"
    /\ QueryIsDirty

====
